---------------------------- MODULE Spec2Model ----------------------------
(***************************************************************************)
(* A model of the Telegram/OpenAI relay bot of src/libs/bot.ts.            *)
(*                                                                         *)
(* Every incoming chat update starts one asynchronous handler (the         *)
(* "message" callback of dispatch).  A handler runs synchronously up to    *)
(* its next await; each await is one I/O call against the chat transport,  *)
(* the keyed store (redis) or the completion provider.  One action of the  *)
(* model is: the outcome of the pending I/O call of one handler (success   *)
(* or rejection) followed by the synchronous code up to the next await.    *)
(* pc names the await the handler is suspended at.                         *)
(***************************************************************************)
EXTENDS Integers, Sequences, FiniteSets, TLC

(***************************************************************************)
(* Bounds of the model.                                                    *)
(***************************************************************************)
MaxUpdates == 2          \* number of updates the transport hands to dispatch
MaxFaults == 2           \* number of things that go wrong: I/O calls that are
                         \* rejected, keys the store loses or damages
MaxContentLength == 4999 \* longest completion the chunking is run on
MaxRaceUpdates == 3      \* number of updates where replies race each other
MaxRaceFaults == 1       \* number of things that go wrong while they race

Updates == 1..MaxUpdates

(***************************************************************************)
(* Program constants.                                                      *)
(***************************************************************************)
PART_SIZE == 2048

SystemPrimer == "you should be helpful"
AltModel == "gpt-3.5-turbo"
DefaultModel == "gpt-4-turbo-preview"
BotName == "@babababababababababababababot"

\* the texts the bot sends; the grave accents of the placeholder are written
\* as apostrophes and the emoji of two notices as words
WaitingPrefix == "Waiting for reply from model '"
WaitingSuffix == "'..."
InternalErrorText == "Internal error, pls @orange"
NoContextText == "No context found for this message? This bot is a clown"
FallbackPrefix == "Error while parsing markdown, fallback to plaintext: "
DeniedText == "Permission denied"

(***************************************************************************)
(* The environment: chats, texts the users type, what the transport and    *)
(* the provider answer.                                                    *)
(***************************************************************************)
ChatIds == {100, 200}
Whitelist == {100}

UserTexts == {"/openai hello", "/openai3 hi", "tell me more", "//aside"}

\* what an update carries: the chat it comes from and its text, if it has one
Inputs ==
    {[chat_id |-> 100, has_text |-> TRUE, text |-> x] : x \in UserTexts}
    \cup {[chat_id |-> 100, has_text |-> FALSE, text |-> ""],
          [chat_id |-> 200, has_text |-> TRUE, text |-> "/openai hello"]}

\* the updates of one conversation: a command and a reply
TalkInputs ==
    {[chat_id |-> 100, has_text |-> TRUE, text |-> x] :
        x \in {"/openai hello", "tell me more"}}

\* the updates of one conversation with two replies that differ
RaceInputs ==
    {[chat_id |-> 100, has_text |-> TRUE, text |-> x] :
        x \in {"/openai hello", "tell me more", "and then?"}}

\* updates of a whitelisted chat, among them texts of more than one line and
\* updates without text
EdgeInputs ==
    {[chat_id |-> 100, has_text |-> TRUE, text |-> x] :
        x \in {"/openai hello", "tell me more", "//aside", "''aside",
               "//aside\n/openai hi"}}
    \cup {[chat_id |-> 100, has_text |-> FALSE, text |-> ""]}

\* e.message of a rejected transport call
TransportErrorMessage == "ETELEGRAM: 400 Bad Request: can't parse entities"

RECURSIVE Repeat(_, _)
Repeat(s, n) ==
    IF n = 0 THEN ""
    ELSE LET h == Repeat(s, n \div 2)
         IN  IF n % 2 = 1 THEN h \o h \o s ELSE h \o h

\* a text of n characters over a pattern whose period does not divide PART_SIZE
LongText(n) == SubSeq(Repeat("abcdefg", (n \div 7) + 1), 1, n)

\* resp.choices of the completions the provider can return: the content of
\* each choice's message
Responses == { <<>>, <<"Hi">>, <<LongText(PART_SIZE)>> }

\* completions whose reply takes three parts, and a short one
LongResponses == { <<"Hi">>, <<LongText(2 * PART_SIZE)>> }

\* completions whose reply takes one part
ShortResponses == { <<"Hi">> }

(***************************************************************************)
(* JavaScript string helpers (0-based positions, as in the source).        *)
(***************************************************************************)
Min(a, b) == IF a < b THEN a ELSE b
Max(a, b) == IF a > b THEN a ELSE b

\* s.substring(a, b): both ends clamped to [0, length], swapped when a > b
Substring(s, a, b) ==
    LET ca == Max(0, Min(a, Len(s)))
        cb == Max(0, Min(b, Len(s)))
        lo == Min(ca, cb)
        hi == Max(ca, cb)
    IN  SubSeq(s, lo + 1, hi)

\* s.startsWith(pre, p)
StartsWithAt(s, p, pre) ==
    /\ p + Len(pre) <= Len(s)
    /\ SubSeq(s, p + 1, p + Len(pre)) = pre

StartsWith(s, pre) == StartsWithAt(s, 0, pre)

(***************************************************************************)
(* Keys of the store.                                                      *)
(***************************************************************************)
\* getMessageId: `msgid:${msg.chat.id}-${msg.message_id}`
getMessageId(chat_id, message_id) ==
    "msgid:" \o ToString(chat_id) \o "-" \o ToString(message_id)

\* newContextId without the separator between the two ids
newContextId_unseparated(chat_id, message_id) ==
    "ctx:" \o ToString(chat_id) \o ToString(message_id)

\* `ctx:${usermsg.chat.id}-${usermsg.message_id}`
newContextId(chat_id, message_id) ==
    "ctx:" \o ToString(chat_id) \o "-" \o ToString(message_id)

(***************************************************************************)
(* Values of the store.  Redis holds strings.  A stored string is either   *)
(* the serialization of a JSON value ([json |-> v], what JSON.stringify    *)
(* wrote) or some other text that is not valid JSON ([raw |-> s]): a       *)
(* context id written by linkMessageWithContext, or a damaged blob.        *)
(***************************************************************************)
Raw(s) == [raw |-> s]

JNull == [t |-> "null"]
JNumber(n) == [t |-> "number", n |-> n]
JObject(o) == [t |-> "object", o |-> o]

\* JSON.stringify(context): a property whose value is undefined is left out
JSONstringify(context) ==
    IF context.model = "undefined"
    THEN [json |-> JObject([params |-> context.params])]
    ELSE [json |-> JObject([model |-> context.model, params |-> context.params])]

\* JSON.parse(data): throws on text that is not JSON
JSONparse(data) ==
    IF "json" \in DOMAIN data
    THEN [threw |-> FALSE, value |-> data.json]
    ELSE [threw |-> TRUE, value |-> JNull]

\* JavaScript truthiness of a parsed JSON value
Truthy(v) ==
    CASE v.t = "null" -> FALSE
      [] v.t = "number" -> v.n # 0
      [] OTHER -> TRUE

\* context.params is an array (has push)
HasParams(v) == v.t = "object" /\ "params" \in DOMAIN v.o

\* ModelOf with the configured default in place of the stored model
ModelOf_default(v) == DefaultModel

\* context.model, undefined when the property is missing
ModelOf(v) == IF "model" \in DOMAIN v.o THEN v.o.model ELSE "undefined"

\* redis.get(key): the stored string, or null
Absent == [absent |-> TRUE]
Get(st, key) == IF key \in DOMAIN st THEN st[key] ELSE Absent

\* redis.set(key, value)
Set(st, key, value) ==
    [k \in DOMAIN st \cup {key} |-> IF k = key THEN value ELSE st[k]]

\* updateContext with the write left out
updateContext_skipped(st, context_id, context) == st

\* updateContext: redis.set(context_id, JSON.stringify(context))
updateContext(st, context_id, context) ==
    Set(st, context_id, JSONstringify(context))

\* linkMessageWithContext: redis.set(message_id, context_id)
linkMessageWithContext(st, message_id, context_id) ==
    Set(st, message_id, Raw(context_id))

(***************************************************************************)
(* getOpenAIReply: the choices folded into one text, each preceded by a    *)
(* line break.                                                             *)
(***************************************************************************)
RECURSIVE Reduce(_, _)
Reduce(accum, choices) ==
    IF choices = <<>> THEN accum
    ELSE Reduce(accum \o "\n" \o Head(choices), Tail(choices))

getOpenAIReply(choices) == Reduce("", choices)

(***************************************************************************)
(* doWriteReply, lines 83-86: the parts of a reply.                        *)
(***************************************************************************)
\* PushPart with the part one character short
PushPart_short(reply, i, parts) ==
    Append(parts, Substring(reply, i, i + PART_SIZE - 1))

\* line 85: parts.push(reply.substring(i, i + PART_SIZE))
PushPart(reply, i, parts) ==
    Append(parts, Substring(reply, i, i + PART_SIZE))

\* lines 84-86: the loop from index i on
RECURSIVE PartsFrom(_, _, _)
PartsFrom(reply, i, parts) ==
    IF i < Len(reply)
    THEN PartsFrom(reply, i + PART_SIZE, PushPart(reply, i, parts))
    ELSE parts

Parts(reply) == PartsFrom(reply, 0, <<>>)

(***************************************************************************)
(* dispatch, lines 195-196: MSG_REGEX = /^\/openai(|3)(@bot)? (.+)/ms.      *)
(* With the m flag ^ matches at the start of every line, with the s flag   *)
(* (.+) runs to the end of the text.                                       *)
(***************************************************************************)
NoMatch == [ok |-> FALSE, variant |-> "", payload |-> ""]

\* (@bot)? (.+) at position p
MatchTail(text, p, variant) ==
    LET q == p + Len(BotName)
    IN  IF StartsWithAt(text, p, BotName \o " ") /\ q + 1 < Len(text)
        THEN [ok |-> TRUE, variant |-> variant,
              payload |-> Substring(text, q + 1, Len(text))]
        ELSE IF StartsWithAt(text, p, " ") /\ p + 1 < Len(text)
        THEN [ok |-> TRUE, variant |-> variant,
              payload |-> Substring(text, p + 1, Len(text))]
        ELSE NoMatch

\* the pattern tried at line start p: the empty alternative first, then 3
MatchAt(text, p) ==
    IF ~StartsWithAt(text, p, "/openai") THEN NoMatch
    ELSE LET plain == MatchTail(text, p + 7, "")
         IN  IF plain.ok THEN plain
             ELSE IF StartsWithAt(text, p + 7, "3")
                  THEN MatchTail(text, p + 8, "3")
                  ELSE NoMatch

LineStarts(text) ==
    {0} \cup {p \in 1..Len(text) : SubSeq(text, p, p) = "\n"}

\* usermsg.text.match(MSG_REGEX): the leftmost match
MatchCommand(text) ==
    LET hits == {p \in LineStarts(text) : MatchAt(text, p).ok}
    IN  IF hits = {} THEN NoMatch
        ELSE MatchAt(text, CHOOSE p \in hits : \A q \in hits : p <= q)

(***************************************************************************)
(* State.                                                                  *)
(***************************************************************************)
VARIABLES
    store,    \* the keyed store: key |-> stored string
    chat,     \* the chats of the transport: chat id |-> its messages, the
              \* message id of a message is its position
    task,     \* per update: the handler's locals and the await it is at
    alive,    \* FALSE once a rejection went unhandled (the runtime exits)
    faults,   \* number of I/O calls rejected and of keys lost or damaged
    chunk     \* the chunking loop of doWriteReply run on its own: the reply,
              \* the loop index and the parts pushed so far

vars == <<store, chat, task, alive, faults, chunk>>

NoMsg == [chat_id |-> 0, message_id |-> 0, has_text |-> FALSE, text |-> "",
          reply_to |-> 0]

\* the locals of the handler of one update; io is the history of the I/O
\* calls it made: the operation, its argument (the key of a store call, the
\* text of a transport call, the model of a provider call) and whether the
\* call succeeded; delivered lists the messages that carry parts 0, 1, ...;
\* among is the set of updates whose handlers were running when this one
\* was called
IdleTask == [pc |-> "idle", usermsg |-> NoMsg, via |-> "", among |-> {},
             context_id |-> "", context |-> JNull,
             model |-> "", messages |-> <<>>,
             respmsg |-> 0, reply |-> "", parts |-> <<>>, i |-> 0,
             prevmsg |-> 0, delivered |-> <<>>, error |-> "", io |-> <<>>]

\* how the history names the sending of part i (its text is in parts) with
\* the given parse_mode
PartTag(i, parse_mode) == "part " \o ToString(i) \o " " \o parse_mode

Io(op, arg, ok) == [op |-> op, arg |-> arg, ok |-> ok]

Logged(t, op, arg, ok) == [t EXCEPT !.io = Append(@, Io(op, arg, ok))]

Init ==
    /\ store = <<>>
    /\ chat = [c \in ChatIds |-> <<>>]
    /\ task = [u \in Updates |-> IdleTask]
    /\ alive = TRUE
    /\ faults = 0
    /\ chunk = [reply |-> "", i |-> 0, parts |-> <<>>]

(***************************************************************************)
(* The chat transport.                                                     *)
(***************************************************************************)
BotMessage(u, text, reply_to, parse_mode) ==
    [from |-> "bot", has_text |-> TRUE, text |-> text, reply_to |-> reply_to,
     parse_mode |-> parse_mode, by |-> u]

UserMessage(u, has_text, text, reply_to) ==
    [from |-> "user", has_text |-> has_text, text |-> text,
     reply_to |-> reply_to, parse_mode |-> "", by |-> u]

\* bot.sendMessage delivered: the chat with the new message
Sent(ch, chat_id, msg) == [ch EXCEPT ![chat_id] = Append(@, msg)]

\* the message id the transport gives the next message of the chat
NextMessageId(ch, chat_id) == Len(ch[chat_id]) + 1

\* bot.editMessageText delivered
Edited(ch, chat_id, message_id, text, parse_mode) ==
    [ch EXCEPT ![chat_id][message_id].text = text,
               ![chat_id][message_id].parse_mode = parse_mode]

(***************************************************************************)
(* Synchronous stretches of the handlers, each up to its next await.       *)
(***************************************************************************)
\* a rejection that nothing catches: the handler is gone, the runtime exits
Unhandled(t, error) == [t EXCEPT !.pc = "unhandled", !.error = error]

\* the handler returned
Returned(t) == [t EXCEPT !.pc = "done"]

\* the handler of the update is running: called and neither returned nor gone
Running(t) == t.pc \notin {"idle", "done", "unhandled"}

\* doOpenAI, line 58: an error thrown inside the try block is caught and the
\* failure notice is sent (the rest of the catch block only logs)
Caught(t, error) == [t EXCEPT !.pc = "error_notice", !.error = error]

\* doOpenAI, lines 42-51: called; suspended at the placeholder sendMessage
doOpenAI(t, via, model, messages, context_id) ==
    [t EXCEPT !.pc = "placeholder", !.via = via, !.model = model,
              !.messages = messages, !.context_id = context_id]

\* doWriteReply, lines 91-114: the head of the loop for index i
LoopAt(t, i) ==
    IF i < Len(t.parts)
    THEN [t EXCEPT !.i = i, !.pc = IF i = 0 THEN "edit_markdown"
                                            ELSE "send_markdown"]
    ELSE Returned([t EXCEPT !.i = i])

\* doWriteReply, lines 80-91: called with the reply of the provider
doWriteReply(t, reply) ==
    LoopAt([t EXCEPT !.reply = reply, !.parts = Parts(reply),
                     !.prevmsg = t.respmsg], 0)

\* dispatch, lines 177-229: the message callback up to its first await
Dispatch(t, usermsg, ch) ==
    LET chatID == usermsg.chat_id
        command_payload == MatchCommand(usermsg.text)
        is_replying_to_bot ==
            /\ usermsg.reply_to # 0
            /\ ch[chatID][usermsg.reply_to].from = "bot"
        t0 == [t EXCEPT !.usermsg = usermsg]
    IN  IF chatID \notin Whitelist
        THEN [t0 EXCEPT !.pc = "denied"]
        ELSE IF ~usermsg.has_text \/ usermsg.text = ""
        THEN Returned(t0)
        ELSE IF command_payload.ok
        THEN doOpenAI(t0, "command",
                 IF command_payload.variant = "3" THEN AltModel
                                                  ELSE DefaultModel,
                 << [role |-> "system", content |-> SystemPrimer],
                    [role |-> "user", content |-> command_payload.payload] >>,
                 newContextId(chatID, usermsg.message_id))
        ELSE IF is_replying_to_bot
        THEN IF StartsWith(usermsg.text, "''") \/ StartsWith(usermsg.text, "//")
             THEN Returned(t0)
             ELSE \* reply_handler, lines 118-123
                  [t0 EXCEPT !.pc = "get_link", !.via = "reply"]
        ELSE Returned(t0)

(***************************************************************************)
(* Actions: the outcome of the I/O call a handler awaits, and the          *)
(* synchronous code that follows it.                                       *)
(***************************************************************************)
At(u, pc) == alive /\ task[u].pc = pc

\* the awaited call resolved; t is the handler at its next await
Resume(u, t) ==
    /\ task' = [task EXCEPT ![u] = t]
    /\ alive' = (t.pc # "unhandled")
    /\ faults' = faults
    /\ UNCHANGED chunk

\* the awaited call rejected
Rejected ==
    /\ faults < MaxFaults
    /\ faults' = faults + 1
    /\ UNCHANGED chunk

\* the rejection is caught or handled: t is the handler at its next await
Recover(u, t) ==
    /\ Rejected
    /\ task' = [task EXCEPT ![u] = t]
    /\ alive' = TRUE

\* the rejection is caught by nothing
Escape(u, t, error) ==
    /\ Rejected
    /\ task' = [task EXCEPT ![u] = Unhandled(t, error)]
    /\ alive' = FALSE

\* The transport hands the next update, one of inputs, to the message
\* callback (line 176).
ReceiveFrom(u, inputs) ==
    /\ At(u, "idle")
    /\ \A v \in DOMAIN task : v < u => task[v].pc # "idle"
    /\ \E in \in inputs :
          \E reply_to \in 0..Len(chat[in.chat_id]) :
             LET chat_id == in.chat_id
                 usermsg == [chat_id |-> chat_id,
                             message_id |-> NextMessageId(chat, chat_id),
                             has_text |-> in.has_text,
                             text |-> in.text,
                             reply_to |-> reply_to]
             IN  /\ chat' = Sent(chat, chat_id,
                                 UserMessage(u, in.has_text, in.text, reply_to))
                 /\ Resume(u, Dispatch([task[u] EXCEPT !.among =
                                            {v \in DOMAIN task : Running(task[v])}],
                                        usermsg, chat))
    /\ UNCHANGED store

Receive(u) == ReceiveFrom(u, Inputs)

ReceiveTalk(u) == ReceiveFrom(u, TalkInputs)

ReceiveRace(u) == ReceiveFrom(u, RaceInputs)

ReceiveEdge(u) == ReceiveFrom(u, EdgeInputs)

\* dispatch, line 184
SendDenied(u) ==
    /\ At(u, "denied")
    /\ LET t == task[u]
       IN  \/ /\ chat' = Sent(chat, t.usermsg.chat_id,
                              BotMessage(u, DeniedText, 0, ""))
              /\ Resume(u, Returned(Logged(t, "sendMessage", DeniedText, TRUE)))
           \/ /\ Escape(u, Logged(t, "sendMessage", DeniedText, FALSE), "telegram")
              /\ UNCHANGED chat
    /\ UNCHANGED store

\* reply_handler, lines 122-131
GetLink(u) ==
    /\ At(u, "get_link")
    /\ LET t == task[u]
           identifier == getMessageId(t.usermsg.chat_id, t.usermsg.reply_to)
           found == Get(store, identifier)
           context_id == IF "raw" \in DOMAIN found THEN found.raw ELSE ""
           t1 == Logged(t, "get", identifier, TRUE)
       IN  \/ Resume(u, IF context_id = ""
                        THEN [t1 EXCEPT !.pc = "nolink_notice"]
                        ELSE [t1 EXCEPT !.pc = "get_context",
                                        !.context_id = context_id])
           \/ Escape(u, Logged(t, "get", identifier, FALSE), "redis")
    /\ UNCHANGED <<store, chat>>

\* the notice of lines 125-129 and of lines 146-150
SendNoContextNotice(u, pc) ==
    /\ At(u, pc)
    /\ LET t == task[u]
       IN  \/ /\ chat' = Sent(chat, t.usermsg.chat_id,
                              BotMessage(u, NoContextText,
                                         t.usermsg.message_id, ""))
              /\ Resume(u, Returned(Logged(t, "sendMessage", NoContextText, TRUE)))
           \/ /\ Escape(u, Logged(t, "sendMessage", NoContextText, FALSE),
                        "telegram")
              /\ UNCHANGED chat
    /\ UNCHANGED store

\* LoadContext with a conversation started afresh when nothing can be read
LoadContext_fresh(data) ==
    IF "json" \in DOMAIN data /\ Truthy(data.json) THEN data.json
    ELSE JObject([model |-> DefaultModel,
                  params |-> <<[role |-> "system", content |-> SystemPrimer]>>])

\* reply_handler, lines 133-143: the context read back from the stored string
LoadContext(data) ==
    IF "absent" \in DOMAIN data THEN JNull
    ELSE IF "raw" \in DOMAIN data /\ data.raw = "" THEN JNull
    ELSE IF JSONparse(data).threw THEN JNull
    ELSE JSONparse(data).value

\* AfterLoad with the push of line 163 left out
AfterLoad_unpushed(t0, context) ==
    LET t == [t0 EXCEPT !.context = context]
    IN  IF ~Truthy(context)
        THEN [t EXCEPT !.pc = "noctx_notice"]
        ELSE IF ~HasParams(context)
        THEN Unhandled(t, "TypeError")
        ELSE doOpenAI(t, "reply", ModelOf(context), context.o.params,
                      t.context_id)

\* AfterLoad with the continuation filed under a ContextId of its own
AfterLoad_rekeyed(t0, context) ==
    LET t == [t0 EXCEPT !.context = context]
    IN  IF ~Truthy(context)
        THEN [t EXCEPT !.pc = "noctx_notice"]
        ELSE IF ~HasParams(context)
        THEN Unhandled(t, "TypeError")
        ELSE doOpenAI(t, "reply", ModelOf(context),
                      Append(context.o.params,
                             [role |-> "user", content |-> t.usermsg.text]),
                      newContextId(t.usermsg.chat_id, t.usermsg.message_id))

\* AfterLoad with the oldest turn dropped to make room for the new one
AfterLoad_window(t0, context) ==
    LET t == [t0 EXCEPT !.context = context]
    IN  IF ~Truthy(context)
        THEN [t EXCEPT !.pc = "noctx_notice"]
        ELSE IF ~HasParams(context)
        THEN Unhandled(t, "TypeError")
        ELSE doOpenAI(t, "reply", ModelOf(context),
                      Append(Tail(context.o.params),
                             [role |-> "user", content |-> t.usermsg.text]),
                      t.context_id)

\* reply_handler, lines 145-164: after the load.  The test of line 154 never
\* succeeds: dispatch (line 191) returns on an update without text.
AfterLoad(t0, context) ==
    LET t == [t0 EXCEPT !.context = context]
    IN  IF ~Truthy(context)
        THEN [t EXCEPT !.pc = "noctx_notice"]
        ELSE IF ~HasParams(context)
        THEN Unhandled(t, "TypeError")       \* context.params.push, line 163
        ELSE doOpenAI(t, "reply", ModelOf(context),
                      Append(context.o.params,
                             [role |-> "user", content |-> t.usermsg.text]),
                      t.context_id)

\* reply_handler, lines 133-164
GetContext(u) ==
    /\ At(u, "get_context")
    /\ LET t == task[u]
           t1 == AfterLoad(Logged(t, "get", t.context_id, TRUE),
                           LoadContext(Get(store, t.context_id)))
       IN  \/ Resume(u, t1)
           \/ Escape(u, Logged(t, "get", t.context_id, FALSE), "redis")
    /\ UNCHANGED <<store, chat>>

\* doOpenAI, lines 44-53
SendPlaceholder(u) ==
    /\ At(u, "placeholder")
    /\ LET t == task[u]
           text == WaitingPrefix \o t.model \o WaitingSuffix
       IN  \/ /\ chat' = Sent(chat, t.usermsg.chat_id,
                              BotMessage(u, text, t.usermsg.message_id,
                                         "Markdown"))
              /\ Resume(u, [Logged(t, "sendMessage", text, TRUE)
                               EXCEPT !.respmsg = NextMessageId(chat, t.usermsg.chat_id),
                                      !.pc = "persist"])
           \/ /\ Recover(u, Caught(Logged(t, "sendMessage", text, FALSE),
                                  "telegram"))
              /\ UNCHANGED chat
    /\ UNCHANGED store

\* Persist with the write merged into what the store holds by then: the
\* handler's newest turn appended to the stored turns
Persist_merged(u) ==
    /\ At(u, "persist")
    /\ LET t == task[u]
           params == IF t.context_id \in DOMAIN store
                     THEN Append(store[t.context_id].json.o.params,
                                 t.messages[Len(t.messages)])
                     ELSE t.messages
       IN  \/ /\ store' = updateContext(store, t.context_id,
                              [model |-> t.model, params |-> params])
              /\ Resume(u, [Logged(t, "set", t.context_id, TRUE)
                               EXCEPT !.pc = "link"])
           \/ /\ Recover(u, Caught(Logged(t, "set", t.context_id, FALSE), "redis"))
              /\ UNCHANGED store
    /\ UNCHANGED chat

\* Persist with a rejected write going unnoticed
Persist_unchecked(u) ==
    /\ At(u, "persist")
    /\ LET t == task[u]
       IN  \/ /\ store' = updateContext(store, t.context_id,
                              [model |-> t.model, params |-> t.messages])
              /\ Resume(u, [Logged(t, "set", t.context_id, TRUE)
                               EXCEPT !.pc = "link"])
           \/ /\ Recover(u, [Logged(t, "set", t.context_id, FALSE)
                                EXCEPT !.pc = "link"])
              /\ UNCHANGED store
    /\ UNCHANGED chat

\* doOpenAI, lines 53-54
Persist(u) ==
    /\ At(u, "persist")
    /\ LET t == task[u]
       IN  \/ /\ store' = updateContext(store, t.context_id,
                              [model |-> t.model, params |-> t.messages])
              /\ Resume(u, [Logged(t, "set", t.context_id, TRUE)
                               EXCEPT !.pc = "link"])
           \/ /\ Recover(u, Caught(Logged(t, "set", t.context_id, FALSE), "redis"))
              /\ UNCHANGED store
    /\ UNCHANGED chat

\* doOpenAI, lines 54-56
LinkPlaceholder(u) ==
    /\ At(u, "link")
    /\ LET t == task[u]
           message_id == getMessageId(t.usermsg.chat_id, t.respmsg)
       IN  \/ /\ store' = linkMessageWithContext(store, message_id, t.context_id)
              /\ Resume(u, [Logged(t, "set", message_id, TRUE)
                               EXCEPT !.pc = "provider"])
           \/ /\ Recover(u, Caught(Logged(t, "set", message_id, FALSE), "redis"))
              /\ UNCHANGED store
    /\ UNCHANGED chat

\* doOpenAI, lines 56-57, with getOpenAIReply and the start of doWriteReply;
\* responses are the completions the provider can return
CompleteWith(u, responses) ==
    /\ At(u, "provider")
    /\ LET t == task[u]
       IN  \/ \E choices \in responses :
                 Resume(u, doWriteReply(Logged(t, "complete", t.model, TRUE),
                                        getOpenAIReply(choices)))
           \/ Recover(u, Caught(Logged(t, "complete", t.model, FALSE), "openai"))
    /\ UNCHANGED <<store, chat>>

Complete(u) == CompleteWith(u, Responses)

CompleteLong(u) == CompleteWith(u, LongResponses)

CompleteShort(u) == CompleteWith(u, ShortResponses)

\* EditMarkdown with a rejected edit ending the delivery
EditMarkdown_abort(u) ==
    /\ At(u, "edit_markdown")
    /\ LET t == task[u]
           part == t.parts[t.i + 1]
       IN  \/ /\ chat' = Edited(chat, t.usermsg.chat_id, t.respmsg, part,
                                "Markdown")
              /\ Resume(u, LoopAt([Logged(t, "editMessageText",
                                          PartTag(t.i, "Markdown"), TRUE)
                                      EXCEPT !.delivered = Append(@, t.respmsg)],
                                  t.i + 1))
           \/ /\ Recover(u, Caught(Logged(t, "editMessageText",
                                          PartTag(t.i, "Markdown"), FALSE),
                                   "telegram"))
              /\ UNCHANGED chat
    /\ UNCHANGED store

\* doWriteReply, lines 93-101
EditMarkdown(u) ==
    /\ At(u, "edit_markdown")
    /\ LET t == task[u]
           part == t.parts[t.i + 1]
       IN  \/ /\ chat' = Edited(chat, t.usermsg.chat_id, t.respmsg, part,
                                "Markdown")
              /\ Resume(u, LoopAt([Logged(t, "editMessageText", PartTag(t.i, "Markdown"), TRUE)
                                      EXCEPT !.delivered = Append(@, t.respmsg)],
                                  t.i + 1))
           \/ /\ Recover(u, [Logged(t, "editMessageText", PartTag(t.i, "Markdown"), FALSE)
                               EXCEPT !.pc = "edit_plain"])
              /\ UNCHANGED chat
    /\ UNCHANGED store

\* doWriteReply, lines 95-98
EditPlain(u) ==
    /\ At(u, "edit_plain")
    /\ LET t == task[u]
           part == t.parts[t.i + 1]
       IN  \/ /\ chat' = Edited(chat, t.usermsg.chat_id, t.respmsg, part, "")
              /\ Resume(u, [Logged(t, "editMessageText", PartTag(t.i, "plain"), TRUE)
                               EXCEPT !.delivered = Append(@, t.respmsg),
                                      !.pc = "edit_fallback_notice"])
           \/ /\ Recover(u, Caught(Logged(t, "editMessageText", PartTag(t.i, "plain"), FALSE),
                                  "telegram"))
              /\ UNCHANGED chat
    /\ UNCHANGED store

FallbackText == FallbackPrefix \o TransportErrorMessage

\* doWriteReply, lines 98-101
EditFallbackNotice(u) ==
    /\ At(u, "edit_fallback_notice")
    /\ LET t == task[u]
       IN  \/ /\ chat' = Sent(chat, t.usermsg.chat_id,
                              BotMessage(u, FallbackText, 0, ""))
              /\ Resume(u, LoopAt(Logged(t, "sendMessage", FallbackText, TRUE),
                                  t.i + 1))
           \/ /\ Recover(u, Caught(Logged(t, "sendMessage", FallbackText, FALSE),
                                  "telegram"))
              /\ UNCHANGED chat
    /\ UNCHANGED store

\* SendMarkdown with every part sent as a reply to the placeholder
SendMarkdown_flat(u) ==
    /\ At(u, "send_markdown")
    /\ LET t == task[u]
           part == t.parts[t.i + 1]
           msg2 == NextMessageId(chat, t.usermsg.chat_id)
       IN  \/ /\ chat' = Sent(chat, t.usermsg.chat_id,
                              BotMessage(u, part, t.respmsg, "Markdown"))
              /\ Resume(u, [Logged(t, "sendMessage", PartTag(t.i, "Markdown"), TRUE)
                               EXCEPT !.prevmsg = msg2,
                                      !.delivered = Append(@, msg2),
                                      !.pc = "link_part"])
           \/ /\ Recover(u, [Logged(t, "sendMessage", PartTag(t.i, "Markdown"), FALSE)
                               EXCEPT !.pc = "send_plain"])
              /\ UNCHANGED chat
    /\ UNCHANGED store

\* doWriteReply, lines 104-107 and 113
SendMarkdown(u) ==
    /\ At(u, "send_markdown")
    /\ LET t == task[u]
           part == t.parts[t.i + 1]
           msg2 == NextMessageId(chat, t.usermsg.chat_id)
       IN  \/ /\ chat' = Sent(chat, t.usermsg.chat_id,
                              BotMessage(u, part, t.prevmsg, "Markdown"))
              /\ Resume(u, [Logged(t, "sendMessage", PartTag(t.i, "Markdown"), TRUE)
                               EXCEPT !.prevmsg = msg2,
                                      !.delivered = Append(@, msg2),
                                      !.pc = "link_part"])
           \/ /\ Recover(u, [Logged(t, "sendMessage", PartTag(t.i, "Markdown"), FALSE)
                               EXCEPT !.pc = "send_plain"])
              /\ UNCHANGED chat
    /\ UNCHANGED store

\* SendPlain with a part that cannot be sent skipped and the loop going on
SendPlain_skip(u) ==
    /\ At(u, "send_plain")
    /\ LET t == task[u]
           part == t.parts[t.i + 1]
           msg2 == NextMessageId(chat, t.usermsg.chat_id)
       IN  \/ /\ chat' = Sent(chat, t.usermsg.chat_id,
                              BotMessage(u, part, t.prevmsg, ""))
              /\ Resume(u, [Logged(t, "sendMessage", PartTag(t.i, "plain"), TRUE)
                               EXCEPT !.prevmsg = msg2,
                                      !.delivered = Append(@, msg2),
                                      !.pc = "send_fallback_notice"])
           \/ /\ Recover(u, LoopAt(Logged(t, "sendMessage", PartTag(t.i, "plain"),
                                          FALSE), t.i + 1))
              /\ UNCHANGED chat
    /\ UNCHANGED store

\* doWriteReply, lines 107-110
SendPlain(u) ==
    /\ At(u, "send_plain")
    /\ LET t == task[u]
           part == t.parts[t.i + 1]
           msg2 == NextMessageId(chat, t.usermsg.chat_id)
       IN  \/ /\ chat' = Sent(chat, t.usermsg.chat_id,
                              BotMessage(u, part, t.prevmsg, ""))
              /\ Resume(u, [Logged(t, "sendMessage", PartTag(t.i, "plain"), TRUE)
                               EXCEPT !.prevmsg = msg2,
                                      !.delivered = Append(@, msg2),
                                      !.pc = "send_fallback_notice"])
           \/ /\ Recover(u, Caught(Logged(t, "sendMessage", PartTag(t.i, "plain"), FALSE),
                                  "telegram"))
              /\ UNCHANGED chat
    /\ UNCHANGED store

\* doWriteReply, lines 110-113
SendFallbackNotice(u) ==
    /\ At(u, "send_fallback_notice")
    /\ LET t == task[u]
       IN  \/ /\ chat' = Sent(chat, t.usermsg.chat_id,
                              BotMessage(u, FallbackText, 0, ""))
              /\ Resume(u, [Logged(t, "sendMessage", FallbackText, TRUE)
                               EXCEPT !.pc = "link_part"])
           \/ /\ Recover(u, Caught(Logged(t, "sendMessage", FallbackText, FALSE),
                                  "telegram"))
              /\ UNCHANGED chat
    /\ UNCHANGED store

\* doWriteReply, lines 113-114 and the next turn of the loop
LinkPart(u) ==
    /\ At(u, "link_part")
    /\ LET t == task[u]
           message_id == getMessageId(t.usermsg.chat_id, t.prevmsg)
       IN  \/ /\ store' = linkMessageWithContext(store, message_id, t.context_id)
              /\ Resume(u, LoopAt(Logged(t, "set", message_id, TRUE), t.i + 1))
           \/ /\ Recover(u, Caught(Logged(t, "set", message_id, FALSE), "redis"))
              /\ UNCHANGED store
    /\ UNCHANGED chat

\* SendErrorNotice with the conversation reset on failure
SendErrorNotice_reset(u) ==
    /\ At(u, "error_notice")
    /\ LET t == task[u]
       IN  \/ /\ chat' = Sent(chat, t.usermsg.chat_id,
                              BotMessage(u, InternalErrorText, 0, ""))
              /\ store' = updateContext(store, t.context_id,
                              [model |-> t.model, params |-> <<>>])
              /\ Resume(u, Returned(Logged(t, "sendMessage", InternalErrorText,
                                           TRUE)))
           \/ /\ Escape(u, Logged(t, "sendMessage", InternalErrorText, FALSE),
                        "telegram")
              /\ UNCHANGED <<chat, store>>

\* doOpenAI, lines 58-77: the catch block
SendErrorNotice(u) ==
    /\ At(u, "error_notice")
    /\ LET t == task[u]
       IN  \/ /\ chat' = Sent(chat, t.usermsg.chat_id,
                              BotMessage(u, InternalErrorText, 0, ""))
              /\ Resume(u, Returned(Logged(t, "sendMessage", InternalErrorText,
                                           TRUE)))
           \/ /\ Escape(u, Logged(t, "sendMessage", InternalErrorText, FALSE),
                        "telegram")
              /\ UNCHANGED chat
    /\ UNCHANGED store

\* reply_handler up to its call of doOpenAI
Resolve(u) ==
    \/ GetLink(u)
    \/ \E pc \in {"nolink_notice", "noctx_notice"} : SendNoContextNotice(u, pc)
    \/ GetContext(u)

\* doOpenAI up to the provider call, and its catch block
Prepare(u) ==
    \/ SendPlaceholder(u)
    \/ Persist(u)
    \/ LinkPlaceholder(u)
    \/ SendErrorNotice(u)

\* doWriteReply, part 0
DeliverFirst(u) ==
    \/ EditMarkdown(u)
    \/ EditPlain(u)
    \/ EditFallbackNotice(u)

\* doWriteReply, the parts after part 0
DeliverRest(u) ==
    \/ SendMarkdown(u)
    \/ SendPlain(u)
    \/ SendFallbackNotice(u)
    \/ LinkPart(u)

\* every await of a handler but the provider call
Steps(u) ==
    \/ SendDenied(u)
    \/ Resolve(u)
    \/ Prepare(u)
    \/ DeliverFirst(u)
    \/ DeliverRest(u)

Handler(u) == Steps(u) \/ Complete(u)

Next == \E u \in Updates : Receive(u) \/ Handler(u)

Spec == Init /\ [][Next]_vars

(***************************************************************************)
(* One conversation in a whitelisted chat, with a provider whose           *)
(* completions take three parts.                                           *)
(***************************************************************************)
NextLong ==
    \E u \in Updates :
        \/ ReceiveTalk(u)
        \/ Resolve(u)
        \/ Prepare(u)
        \/ CompleteLong(u)
        \/ DeliverFirst(u)
        \/ DeliverRest(u)

SpecLong == Init /\ [][NextLong]_vars

(***************************************************************************)
(* One more update, so that two replies can be handled while a             *)
(* conversation exists, with fewer faults and a provider whose completions *)
(* take one part (the loop of doWriteReply ends after part 0).             *)
(***************************************************************************)
RaceUpdates == 1..MaxRaceUpdates

InitRace ==
    /\ store = <<>>
    /\ chat = [c \in ChatIds |-> <<>>]
    /\ task = [u \in RaceUpdates |-> IdleTask]
    /\ alive = TRUE
    /\ faults = MaxFaults - MaxRaceFaults
    /\ chunk = [reply |-> "", i |-> 0, parts |-> <<>>]

NextRace ==
    \E u \in RaceUpdates :
        \/ ReceiveRace(u)
        \/ Resolve(u)
        \/ Prepare(u)
        \/ CompleteShort(u)
        \/ DeliverFirst(u)

SpecRace == InitRace /\ [][NextRace]_vars

(***************************************************************************)
(* The updates of a whitelisted chat that dispatch tells apart, with a     *)
(* provider whose completions take one part.                               *)
(***************************************************************************)
NextEdge ==
    \E u \in Updates :
        \/ ReceiveEdge(u)
        \/ Resolve(u)
        \/ Prepare(u)
        \/ CompleteShort(u)
        \/ DeliverFirst(u)

SpecEdge == Init /\ [][NextEdge]_vars

(***************************************************************************)
(* The store on its own.  Expiry and eviction are the store's business,    *)
(* and a stored string can be damaged; the handlers find what is there.    *)
(***************************************************************************)
SystemTurn == [role |-> "system", content |-> SystemPrimer]

\* stored strings that are no serialized {model, params} context
DamagedBlobs ==
    { Raw(""), Raw("{bad"),
      [json |-> JNull],
      [json |-> JNumber(123)],
      [json |-> JObject([model |-> DefaultModel])],
      [json |-> JObject([params |-> <<SystemTurn>>])] }

IsContextKey(key) == StartsWith(key, "ctx:")

IsLinkKey(key) == StartsWith(key, "msgid:")

Evict ==
    /\ faults < MaxFaults
    /\ \E key \in DOMAIN store :
          store' = [k \in DOMAIN store \ {key} |-> store[k]]
    /\ faults' = faults + 1
    /\ UNCHANGED <<chat, task, alive, chunk>>

Damage ==
    /\ faults < MaxFaults
    /\ \E key \in DOMAIN store, blob \in DamagedBlobs :
          /\ IsContextKey(key)
          /\ store' = [store EXCEPT ![key] = blob]
    /\ faults' = faults + 1
    /\ UNCHANGED <<chat, task, alive, chunk>>

NextDecay == Next \/ Evict \/ Damage

SpecDecay == Init /\ [][NextDecay]_vars

(***************************************************************************)
(* The chunking loop of doWriteReply, lines 83-86, one turn per step, on   *)
(* every reply getOpenAIReply can build from a completion of up to         *)
(* MaxContentLength characters.                                            *)
(***************************************************************************)
ChunkReplies ==
    {getOpenAIReply(choices) :
        choices \in {<<>>} \cup {<<LongText(n)>> : n \in 0..MaxContentLength}}

InitChunk ==
    /\ store = <<>>
    /\ chat = [c \in ChatIds |-> <<>>]
    /\ task = [u \in Updates |-> IdleTask]
    /\ alive = TRUE
    /\ faults = 0
    /\ chunk \in {[reply |-> r, i |-> 0, parts |-> <<>>] : r \in ChunkReplies}

ChunkStep ==
    /\ chunk.i < Len(chunk.reply)
    /\ chunk' = [chunk EXCEPT !.i = chunk.i + PART_SIZE,
                              !.parts = PushPart(chunk.reply, chunk.i, @)]
    /\ UNCHANGED <<store, chat, task, alive, faults>>

SpecChunk == InitChunk /\ [][ChunkStep]_vars

TypeOK ==
    /\ alive \in BOOLEAN
    /\ faults \in 0..MaxFaults
    /\ DOMAIN chat = ChatIds
    /\ DOMAIN task \in {Updates, RaceUpdates}

(***************************************************************************)
(* Properties.                                                             *)
(***************************************************************************)
Range(seq) == {seq[n] : n \in DOMAIN seq}

\* a serialized context is stored under the key
StoresContext(st, key) ==
    /\ key \in DOMAIN st
    /\ "json" \in DOMAIN st[key]
    /\ HasParams(st[key].json)

PlaceholderText(t) == WaitingPrefix \o t.model \o WaitingSuffix

\* the handler's provider call has returned or been rejected
Called(t) == \E n \in DOMAIN t.io : t.io[n].op = "complete"

\* C1: every message link of the store (key msgid:<chat>-<message>) holds a
\* ContextId under which a context is stored, in every reachable state, also
\* while handlers are suspended at an I/O call or after the process died.
C1_LinksResolve ==
    \A key \in DOMAIN store :
        IsLinkKey(key) =>
            /\ "raw" \in DOMAIN store[key]
            /\ IsContextKey(store[key].raw)
            /\ StoresContext(store, store[key].raw)

\* the process died while a handler is suspended in doWriteReply, a part
\* delivered and not yet linked, its placeholder linked
C1_Witness ==
    /\ ~alive
    /\ \E u \in Updates :
          /\ task[u].pc = "link_part"
          /\ Get(store, getMessageId(task[u].usermsg.chat_id, task[u].respmsg))
                = Raw(task[u].context_id)

\* what holds of a handler whose provider call has returned or was rejected
C2_State ==
    \A u \in Updates :
        LET t == task[u]
            c == t.usermsg.chat_id
        IN  \A n \in DOMAIN t.io :
                t.io[n].op = "complete" =>
                    /\ n >= 4
                    /\ t.io[n - 3] = Io("sendMessage", PlaceholderText(t), TRUE)
                    /\ t.io[n - 2] = Io("set", t.context_id, TRUE)
                    /\ t.io[n - 1] = Io("set", getMessageId(c, t.respmsg), TRUE)
                    /\ \A k \in 1..(n - 1) : t.io[k].ok
                    /\ t.respmsg \in 1..Len(chat[c])
                    /\ chat[c][t.respmsg].from = "bot"
                    /\ chat[c][t.respmsg].by = u
                    /\ Get(store, getMessageId(c, t.respmsg)) = Raw(t.context_id)
                    /\ StoresContext(store, t.context_id)

\* the step that persists writes the model and the turns the provider gets
C2_Step ==
    \A u \in Updates :
        (task[u].pc = "persist" /\ task'[u].pc = "link") =>
            /\ task'[u].model = task[u].model
            /\ task'[u].messages = task[u].messages
            /\ Get(store', task[u].context_id)
                 = [json |-> JObject([model |-> task[u].model,
                                      params |-> task[u].messages])]

\* C2: whenever a handler has called the provider, it has before that, in
\* this order and each with success, sent the placeholder, persisted
\* (model, turns so far) under the ContextId and linked the placeholder to the
\* ContextId; no call of the handler failed before the provider call.
C2_PlaceholderBeforeProvider == []C2_State /\ [][C2_Step]_vars

\* a new conversation and a continuation have both called the provider
C2_Witness ==
    \E u, v \in Updates :
        /\ task[u].via = "command" /\ Called(task[u])
        /\ task[v].via = "reply" /\ Called(task[v])

\* the handler returned after the provider answered and without any error
\* reaching the catch block of doOpenAI
Succeeded(t) ==
    /\ t.pc = "done"
    /\ t.error = ""
    /\ Io("complete", t.model, TRUE) \in Range(t.io)

\* C3: when an update completed successfully, the context stored under its
\* ContextId is the turn sequence sent to the provider with one more turn,
\* {assistant, completion result}.
C3_AssistantTurnPersisted ==
    \A u \in Updates :
        LET t == task[u]
        IN  Succeeded(t) =>
                /\ StoresContext(store, t.context_id)
                /\ LET turns == store[t.context_id].json.o.params
                   IN  /\ Len(turns) = Len(t.messages) + 1
                       /\ turns[Len(turns)].role = "assistant"
                       /\ turns[Len(turns)].content = t.reply

\* the handling of the update has ended: its handler returned or died
Ended(t) == t.pc \in {"done", "unhandled"}

\* C4: once the handling of an update has ended, every message that carries
\* a delivered part of the reply is linked to the update's ContextId, unless
\* the store rejected the very call that links it.
C4_DeliveredFragmentsLinked ==
    \A u \in Updates :
        LET t == task[u]
        IN  Ended(t) =>
                \A m \in Range(t.delivered) :
                    LET message_id == getMessageId(t.usermsg.chat_id, m)
                    IN  \/ Get(store, message_id) = Raw(t.context_id)
                        \/ Io("set", message_id, FALSE) \in Range(t.io)

\* the I/O call that sends part i with the given parse_mode
PartCall(i, parse_mode, ok) ==
    Io(IF i = 0 THEN "editMessageText" ELSE "sendMessage",
       PartTag(i, parse_mode), ok)

\* C6: a rejected Markdown attempt of part i is followed by the plain-text
\* attempt of the same part and, when that is delivered, by the fallback
\* notice; it never ends the delivery: a handler that met no other failure
\* delivers and links every part, each message carrying its part.
C6_FallbackContinues ==
    \A u \in Updates :
        LET t == task[u]
            c == t.usermsg.chat_id
            last == Len(t.io)
        IN  /\ \A n \in DOMAIN t.io, i \in 0..Len(t.parts) :
                  t.io[n] = PartCall(i, "Markdown", FALSE) =>
                      IF n = last
                      THEN /\ t.pc = IF i = 0 THEN "edit_plain" ELSE "send_plain"
                           /\ t.i = i
                      ELSE /\ t.io[n + 1].op = t.io[n].op
                           /\ t.io[n + 1].arg = PartTag(i, "plain")
                           /\ t.io[n + 1].ok =>
                                IF n + 1 = last
                                THEN /\ t.pc = IF i = 0 THEN "edit_fallback_notice"
                                                        ELSE "send_fallback_notice"
                                     /\ t.i = i
                                ELSE /\ t.io[n + 2].op = "sendMessage"
                                     /\ t.io[n + 2].arg = FallbackText
            /\ \A k \in DOMAIN t.delivered :
                  /\ k <= Len(t.parts)
                  /\ chat[c][t.delivered[k]].text = t.parts[k]
                  /\ chat[c][t.delivered[k]].by = u
            /\ Succeeded(t) =>
                  /\ Len(t.delivered) = Len(t.parts)
                  /\ \A k \in DOMAIN t.delivered :
                        Get(store, getMessageId(c, t.delivered[k]))
                          = Raw(t.context_id)

\* a reply of two parts, the Markdown attempt of each rejected, both
\* delivered as plain text and linked
C6_Witness ==
    \E u \in Updates :
        LET t == task[u]
        IN  /\ Succeeded(t)
            /\ Len(t.parts) = 2
            /\ PartCall(0, "Markdown", FALSE) \in Range(t.io)
            /\ PartCall(1, "Markdown", FALSE) \in Range(t.io)
            /\ \A k \in 1..2 :
                  chat[t.usermsg.chat_id][t.delivered[k]].parse_mode = ""

\* the keys of the contexts the store holds
ContextKeys(st) == {key \in DOMAIN st : IsContextKey(key)}

\* the generic failure notices the handler of update u got into the chat
ErrorNotices(u) ==
    LET c == task[u].usermsg.chat_id
    IN  {m \in DOMAIN chat[c] : /\ chat[c][m].from = "bot"
                                /\ chat[c][m].by = u
                                /\ chat[c][m].text = InternalErrorText}

\* the handler's provider call was rejected, or a later call in doWriteReply
FailedAfterCommit(t) == Called(t) /\ t.error # ""

\* what holds of a handler that failed after its provider call was made
C9_State ==
    \A u \in Updates :
        LET t == task[u]
            c == t.usermsg.chat_id
            sets == {n \in DOMAIN t.io :
                        t.io[n].op = "set" /\ IsContextKey(t.io[n].arg)}
        IN  FailedAfterCommit(t) =>
                /\ t.pc \in {"error_notice", "done", "unhandled"}
                /\ Cardinality(ErrorNotices(u)) = IF t.pc = "done" THEN 1 ELSE 0
                /\ Get(store, getMessageId(c, t.respmsg)) = Raw(t.context_id)
                /\ StoresContext(store, t.context_id)
                /\ \E n \in DOMAIN t.io :
                      /\ sets = {n}
                      /\ t.io[n] = Io("set", t.context_id, TRUE)
                      /\ t.io[n + 2].op = "complete"

\* a step of a handler that has called the provider writes no context and
\* leaves the link of its placeholder alone, and once it has failed it writes
\* nothing at all
C9_Step ==
    \A u \in Updates :
        (Called(task[u]) /\ task'[u] # task[u]) =>
            /\ ContextKeys(store') = ContextKeys(store)
            /\ \A key \in ContextKeys(store) : store'[key] = store[key]
            /\ LET link == getMessageId(task[u].usermsg.chat_id, task[u].respmsg)
               IN  Get(store', link) = Get(store, link)
            /\ task[u].error # "" => store' = store

\* C9: when the provider call is rejected, or a call during the delivery,
\* the handler sends the generic failure notice once (it is in the chat when
\* the transport accepts it) and writes nothing to the store after step 3
\* but the links of parts it delivered: the context it persisted before the
\* provider call is its only context write, and the link of its placeholder
\* stays.
C9_FailureLeavesStore == []C9_State /\ [][C9_Step]_vars

\* a handler returned after the transport refused part 1 of a reply twice,
\* part 0 delivered, the failure notice in the chat
C9_Witness ==
    \E u \in Updates :
        /\ task[u].pc = "done"
        /\ task[u].error = "telegram"
        /\ Called(task[u])
        /\ Len(task[u].delivered) = 1
        /\ Cardinality(ErrorNotices(u)) = 1

\* C10: no failure of a provider, transport or store call escapes the
\* handler of a conversation update as an unhandled rejection, and the
\* process lives on to handle later updates.
C10_NoFaultEscapes ==
    \A u \in Updates :
        task[u].via \in {"command", "reply"} =>
            /\ task[u].pc # "unhandled"
            /\ alive

RECURSIVE Join(_)
Join(parts) == IF parts = <<>> THEN "" ELSE Head(parts) \o Join(Tail(parts))

\* C5: the chunking loop yields parts of at most PART_SIZE characters whose
\* concatenation, in order, is the reply: after every turn of the loop the
\* parts pushed so far make up the first i characters, at its end the whole
\* reply; a reply of 5000 characters yields parts of 2048, 2048 and 904.
C5_ChunksReassemble ==
    /\ \A k \in DOMAIN chunk.parts :
          Len(chunk.parts[k]) \in 1..PART_SIZE
    /\ Join(chunk.parts) = Substring(chunk.reply, 0, chunk.i)
    /\ chunk.i >= Len(chunk.reply) =>
          /\ Join(chunk.parts) = chunk.reply
          /\ chunk.parts = Parts(chunk.reply)
          /\ Len(chunk.reply) = 5000 =>
                /\ Len(chunk.parts) = 3
                /\ Len(chunk.parts[1]) = 2048
                /\ Len(chunk.parts[2]) = 2048
                /\ Len(chunk.parts[3]) = 904

\* the loop has ended on a reply of 5000 characters
C5_Witness ==
    /\ Len(chunk.reply) = 5000
    /\ chunk.i >= Len(chunk.reply)
    /\ Len(chunk.parts) = 3

\* the handler is past the await of its n-th store read
HasRead(t, n) ==
    /\ Len(t.io) >= n
    /\ \A k \in 1..n : t.io[k].op = "get" /\ t.io[k].ok

\* reply_handler found no link, or under the link no context it could load
NoContextCase(t) ==
    /\ t.via = "reply"
    /\ \/ HasRead(t, 1) /\ t.context_id = ""
       \/ HasRead(t, 2) /\ ~Truthy(t.context)

\* the "no context found" notices the handler of update u got into the chat
NoContextNotices(u) ==
    LET c == task[u].usermsg.chat_id
    IN  {m \in DOMAIN chat[c] : /\ chat[c][m].from = "bot"
                                /\ chat[c][m].by = u
                                /\ chat[c][m].text = NoContextText
                                /\ chat[c][m].reply_to = task[u].usermsg.message_id}

MessagesBy(u) ==
    LET c == task[u].usermsg.chat_id
    IN  {m \in DOMAIN chat[c] : chat[c][m].from = "bot" /\ chat[c][m].by = u}

\* what holds of a handler in the no-context case
C7_State ==
    \A u \in Updates :
        LET t == task[u]
        IN  NoContextCase(t) =>
                /\ t.pc \in {"nolink_notice", "noctx_notice", "done", "unhandled"}
                /\ t.error # "TypeError"
                /\ \A n \in DOMAIN t.io :
                      /\ t.io[n].op \in {"get", "sendMessage"}
                      /\ t.io[n].op = "sendMessage" =>
                            n = Len(t.io) /\ t.io[n].arg = NoContextText
                /\ MessagesBy(u) = NoContextNotices(u)
                /\ Cardinality(NoContextNotices(u))
                      = IF t.pc = "done" THEN 1 ELSE 0

\* the load takes a missing key and a string that is not JSON for no context,
\* and a step of a handler in the no-context case writes nothing
C7_Step ==
    \A u \in Updates :
        /\ (task[u].pc = "get_link" /\ task'[u].pc \notin {"get_link", "unhandled"})
              => (task'[u].context_id = "")
                    = (getMessageId(task[u].usermsg.chat_id,
                                    task[u].usermsg.reply_to) \notin DOMAIN store)
        /\ (/\ task[u].pc = "get_context"
            /\ task'[u].pc \notin {"get_context", "unhandled"}
            /\ \/ task[u].context_id \notin DOMAIN store
               \/ "raw" \in DOMAIN store[task[u].context_id])
              => task'[u].pc = "noctx_notice"
        /\ (NoContextCase(task[u]) /\ task'[u] # task[u]) => store' = store

\* C7: when the replied-to message has no link, or the linked context is
\* absent or cannot be read, the handler sends the "no context found"
\* notice once, as a reply to the update, and then returns: it sends nothing
\* else, never calls the provider and writes nothing to the store.
C7_NoContextNotice == []C7_State /\ [][C7_Step]_vars

\* a reply found its link, the context under it gone, and returned after the
\* notice
C7_Witness ==
    \E u \in Updates :
        LET t == task[u]
        IN  /\ t.pc = "done"
            /\ HasRead(t, 2)
            /\ t.context_id # ""
            /\ t.context_id \notin DOMAIN store
            /\ Cardinality(NoContextNotices(u)) = 1

\* the value is a {model, params} record
WellFormedContext(v) ==
    /\ v.t = "object"
    /\ DOMAIN v.o = {"model", "params"}

\* C8: whatever is stored under the resolved ContextId, if it is no
\* well-formed serialized context the continuation treats it as not found:
\* the handler sends the "no context found" notice and nothing is thrown out
\* of reply_handler.
C8_MalformedIsNotFound ==
    \A u \in Updates :
        LET t == task[u]
        IN  (t.via = "reply" /\ HasRead(t, 2) /\ ~WellFormedContext(t.context)) =>
                /\ t.error # "TypeError"
                /\ t.pc \in {"noctx_notice", "done", "unhandled"}
                /\ ~Called(t)
                /\ t.respmsg = 0
                /\ t.pc = "done" => Cardinality(NoContextNotices(u)) = 1

UserTurn(text) == [role |-> "user", content |-> text]

\* the handler persisted under its ContextId before it called the provider
PersistedBeforeCall(t) ==
    \E n, m \in DOMAIN t.io :
        /\ n < m
        /\ t.io[n] = Io("set", t.context_id, TRUE)
        /\ t.io[m].op = "complete"

\* what holds of a continuation whose provider call has been made
C11_State ==
    \A u \in Updates :
        LET t == task[u]
            loaded == t.context.o.params
        IN  (t.via = "reply" /\ Called(t)) =>
                /\ HasParams(t.context)
                /\ Len(t.messages) = Len(loaded) + 1
                /\ SubSeq(t.messages, 1, Len(loaded)) = loaded
                /\ t.messages[Len(t.messages)] = UserTurn(t.usermsg.text)
                /\ PersistedBeforeCall(t)

\* the load takes what the store holds, the write puts there the turns
\* loaded and the user's turn
C11_Step ==
    \A u \in Updates :
        LET t == task[u]
        IN  /\ (t.pc = "get_context" /\ task'[u].pc = "placeholder") =>
                   task'[u].context = store[t.context_id].json
            /\ (t.via = "reply" /\ t.pc = "persist" /\ task'[u].pc = "link") =>
                   store'[t.context_id].json.o.params =
                       Append(t.context.o.params, UserTurn(t.usermsg.text))

\* C11: a continuation appends exactly one user turn before any provider
\* call: the turns the handler calls the provider with, which it persisted
\* before the call, are the turns it loaded from the store, unchanged and in
\* order, followed by the one turn {user, text of the reply}.
C11_ContinuationAppendsOneTurn == []C11_State /\ [][C11_Step]_vars

\* a reply to a conversation of two stored turns has called the provider with
\* three turns
C11_Witness ==
    \E u \in Updates :
        LET t == task[u]
        IN  /\ t.via = "reply"
            /\ Called(t)
            /\ Len(t.context.o.params) = 2
            /\ Len(t.messages) = 3
            /\ t.messages[3] = UserTurn("tell me more")
            /\ store[t.context_id].json.o.params = t.messages

\* the role of the n-th turn of a sequence that, after the system turn,
\* alternates user and assistant
AlternatingRole(n) ==
    IF n = 1 THEN "system" ELSE IF n % 2 = 0 THEN "user" ELSE "assistant"

\* C12: in every reachable state the turns of every persisted context are
\* the system turn followed by strictly alternating user and assistant turns
\* (user, assistant, user, ...).
C12_TurnsAlternate ==
    \A key \in ContextKeys(store) :
        StoresContext(store, key) =>
            LET params == store[key].json.o.params
            IN  \A n \in DOMAIN params : params[n].role = AlternatingRole(n)

\* the message links the handler has written: the keys of its successful
\* linking calls
LinksWritten(t) ==
    {t.io[n].arg : n \in {k \in DOMAIN t.io : /\ t.io[k].op = "set"
                                               /\ t.io[k].ok
                                               /\ IsLinkKey(t.io[k].arg)}}

\* the ContextId a continuation works under is the one the replied-to
\* message is linked to, and every link a handler wrote holds its ContextId
C13_State ==
    \A u \in Updates :
        LET t == task[u]
            replied == getMessageId(t.usermsg.chat_id, t.usermsg.reply_to)
        IN  /\ (t.via = "reply" /\ t.context_id # "") =>
                   /\ Get(store, replied) = Raw(t.context_id)
                   /\ \E v \in Updates :
                         /\ task[v].via = "command"
                         /\ t.context_id =
                                "ctx:" \o ToString(task[v].usermsg.chat_id) \o "-"
                                       \o ToString(task[v].usermsg.message_id)
            /\ \A key \in LinksWritten(t) : Get(store, key) = Raw(t.context_id)

\* a link, once written, keeps its value
C13_Step ==
    \A key \in DOMAIN store :
        IsLinkKey(key) => key \in DOMAIN store' /\ store'[key] = store[key]

\* C13: the ContextId of a conversation is stable: a continuation works
\* under the ContextId its replied-to message is linked to, which is the one
\* derived from the command that started the conversation, and derives none
\* of its own; every placeholder link and fragment link a handler writes has
\* that ContextId as its value, and no link is ever overwritten.
C13_ContextIdStable == []C13_State /\ [][C13_Step]_vars

\* a reply to the last fragment of a three-part answer has itself delivered
\* three parts, all six messages linked to the ContextId of the command
C13_Witness ==
    \E u, v \in Updates :
        /\ task[u].via = "command"
        /\ task[v].via = "reply"
        /\ Len(task[u].delivered) = 3
        /\ task[v].usermsg.reply_to = task[u].delivered[3]
        /\ Len(task[v].delivered) = 3
        /\ task[v].pc = "done"
        /\ task[v].context_id = "ctx:100-1"
        /\ Cardinality(LinksWritten(task[u]) \cup LinksWritten(task[v])) = 6
        /\ \A key \in LinksWritten(task[u]) \cup LinksWritten(task[v]) :
              store[key] = Raw("ctx:100-1")

\* the update is a reply to a message the bot sent
RepliesToBot(usermsg) ==
    /\ usermsg.reply_to # 0
    /\ chat[usermsg.chat_id][usermsg.reply_to].from = "bot"

\* the texts of EdgeInputs that MSG_REGEX matches: "/openai", a blank and a
\* text, at the start of a line
CommandTexts == {"/openai hello", "//aside\n/openai hi"}

\* the texts of EdgeInputs that begin with an ignore sentinel
SentinelTexts == {"//aside", "''aside", "//aside\n/openai hi"}

\* an update the edge policy drops
Dropped(usermsg) ==
    \/ ~usermsg.has_text
    \/ usermsg.text \notin CommandTexts /\ ~RepliesToBot(usermsg)
    \/ RepliesToBot(usermsg) /\ usermsg.text \in SentinelTexts

\* C14: an update of a whitelisted chat that is a non-text message, or a
\* text that neither is a new-conversation command nor replies to a message
\* of the bot, or a reply to the bot whose text begins with '' or //, is
\* dropped with no side effect: its handler returns having made no call to
\* the transport, the store or the provider, and the bot sends nothing.
C14_DroppedSilently ==
    \A u \in Updates :
        LET t == task[u]
        IN  (t.pc # "idle" /\ t.usermsg.chat_id \in Whitelist
                           /\ Dropped(t.usermsg)) =>
                /\ t.pc = "done"
                /\ t.io = <<>>
                /\ MessagesBy(u) = {}

\* the handler has persisted under its ContextId
HasPersisted(t) == Io("set", t.context_id, TRUE) \in Range(t.io)

\* two continuations of one conversation that both loaded the same turns
\* (neither read the other's write) and both persisted
Raced(u, v) ==
    /\ u # v
    /\ task[u].via = "reply" /\ task[v].via = "reply"
    /\ task[u].context_id = task[v].context_id
    /\ task[u].context = task[v].context
    /\ HasPersisted(task[u]) /\ HasPersisted(task[v])

\* no other continuation works under the ContextId of u and v
OnlyRepliers(u, v) ==
    \A w \in RaceUpdates \ {u, v} :
        task[w].context_id = task[u].context_id => task[w].via = "command"

\* after a race the store holds the turns of one of the two handlers: the
\* loaded turns and one user turn
C15_State ==
    \A u, v \in RaceUpdates :
        (Raced(u, v) /\ OnlyRepliers(u, v)) =>
            LET params == store[task[u].context_id].json.o.params
            IN  /\ params \in {task[u].messages, task[v].messages}
                /\ Len(params) = Len(task[u].context.o.params) + 1

\* a write puts the writer's turns under the ContextId, whatever is there
C15_Step ==
    \A u \in RaceUpdates :
        (task[u].pc = "persist" /\ task'[u].pc = "link") =>
            store'[task[u].context_id].json.o.params = task[u].messages

\* C15: the store is last-write-wins: a handler's write replaces what is
\* stored by the turns that handler loaded plus its own turn, so when two
\* replies to one conversation are handled concurrently and both load before
\* either writes, the persisted context ends with one of the two users'
\* turns only; the state in which both have finished and one turn is lost is
\* reachable (C15_Witness).
C15_LastWriteWins == []C15_State /\ [][C15_Step]_vars

\* both replies were handled to the end without failure, and the persisted
\* context holds the turn of the one and not of the other
C15_Witness ==
    \E u, v \in RaceUpdates :
        /\ Raced(u, v)
        /\ task[u].pc = "done" /\ task[u].error = "" /\ Called(task[u])
        /\ task[v].pc = "done" /\ task[v].error = "" /\ Called(task[v])
        /\ task[u].usermsg.text # task[v].usermsg.text
        /\ store[task[u].context_id].json.o.params = task[u].messages
        /\ UserTurn(task[v].usermsg.text) \notin
               Range(store[task[u].context_id].json.o.params)

\* the text a command of UserTexts supplies after "/openai " or "/openai3 "
SuppliedText(text) ==
    CASE text = "/openai hello" -> "hello"
      [] text = "/openai3 hi" -> "hi"
      [] OTHER -> ""

\* "ctx:<c>-<m>", spelled out
ExpectedContextId(c, m) == "ctx:" \o ToString(c) \o "-" \o ToString(m)

\* chat ids (a group has a negative id) and message ids whose decimal
\* digits run into each other when written side by side
SampleChatIds == {-100, -10, -1, 1, 10, 11, 100, 101, 200}
SampleMessageIds == {1, 2, 10, 11, 55, 100, 101}

\* what holds of the handler of a command and of the ContextIds
C16_State ==
    /\ \A u \in Updates :
          LET t == task[u]
              expected == << [role |-> "system", content |-> "you should be helpful"],
                             [role |-> "user",
                              content |-> SuppliedText(t.usermsg.text)] >>
          IN  t.via = "command" =>
                  /\ t.context_id = ExpectedContextId(t.usermsg.chat_id,
                                                      t.usermsg.message_id)
                  /\ t.messages = expected
                  /\ Called(t) => PersistedBeforeCall(t)
                  /\ (t.usermsg.chat_id = 100 /\ t.usermsg.message_id = 1) =>
                         t.context_id = "ctx:100-1"
    \* the derivation does not read the state: it is evaluated once, before
    \* the first update
    /\ (\A u \in Updates : task[u].pc = "idle") =>
          /\ newContextId(100, 55) = "ctx:100-55"
          /\ \A c1, c2 \in SampleChatIds : \A m1, m2 \in SampleMessageIds :
                (newContextId(c1, m1) = newContextId(c2, m2)) =>
                    (c1 = c2 /\ m1 = m2)

\* the write of the handler of a command puts the two initial turns under
\* its ContextId
C16_Step ==
    \A u \in Updates :
        LET t == task[u]
        IN  (t.via = "command" /\ t.pc = "persist" /\ task'[u].pc = "link") =>
                /\ ExpectedContextId(t.usermsg.chat_id, t.usermsg.message_id)
                       \notin DOMAIN store
                /\ store'[ExpectedContextId(t.usermsg.chat_id,
                                            t.usermsg.message_id)].json.o.params
                       = << [role |-> "system", content |-> "you should be helpful"],
                            [role |-> "user",
                             content |-> SuppliedText(t.usermsg.text)] >>

\* C16: a new-conversation command in chat c with message id m works under
\* the ContextId ctx:<c>-<m> and persists under it, before the provider is
\* called, a context whose turns are exactly [system primer, {user, text
\* supplied after the command}] (chat 100, message 55 gives ctx:100-55);
\* distinct (chat id, message id) pairs give distinct ContextIds.
C16_NewConversation == []C16_State /\ [][C16_Step]_vars

\* the command "/openai hello", message 1 of chat 100, has called the
\* provider with ctx:100-1 holding [system, {user, hello}]
C16_Witness ==
    \E u \in Updates :
        LET t == task[u]
        IN  /\ t.via = "command"
            /\ t.usermsg.text = "/openai hello"
            /\ Called(t)
            /\ t.context_id = "ctx:100-1"
            /\ store["ctx:100-1"].json.o.params[2] =
                   [role |-> "user", content |-> "hello"]
            /\ Len(store["ctx:100-1"].json.o.params) = 2

\* the model a command of UserTexts selects: the alternate model with the
\* suffix 3, else the configured default
SelectedModel(text) ==
    IF text = "/openai3 hi" THEN "gpt-3.5-turbo" ELSE "gpt-4-turbo-preview"

\* the model of the provider call the handler made
CalledModels(t) ==
    {t.io[n].arg : n \in {k \in DOMAIN t.io : t.io[k].op = "complete"}}

\* the command that started the conversation of the ContextId
Starter(context_id) ==
    CHOOSE v \in Updates :
        /\ task[v].via = "command"
        /\ task[v].context_id = context_id

\* what holds of the models of commands, continuations and stored contexts
C20_State ==
    /\ \A u \in Updates :
          LET t == task[u]
          IN  /\ t.via = "command" =>
                     /\ t.model = SelectedModel(t.usermsg.text)
                     /\ CalledModels(t) \subseteq {SelectedModel(t.usermsg.text)}
              /\ (t.via = "reply" /\ t.messages # <<>>) =>
                     LET chosen == SelectedModel(
                                       task[Starter(t.context_id)].usermsg.text)
                     IN  /\ t.context.o.model = chosen
                         /\ t.model = chosen
                         /\ CalledModels(t) \subseteq {chosen}
    /\ \A key \in ContextKeys(store) :
          store[key].json.o.model = SelectedModel(task[Starter(key)].usermsg.text)

\* C20: the model of a conversation is chosen once, by the command that
\* starts it (the alternate model when the command carries the suffix 3,
\* otherwise the configured default), and is fixed afterwards: every
\* continuation calls the provider with the model stored in the context it
\* loaded and persists that model again; the stored model never changes.
C20_ModelFixed == C20_State

\* a reply into a conversation started with /openai3 has called the provider
\* with the alternate model, which is not the default, and persisted it
C20_Witness ==
    \E u \in Updates :
        LET t == task[u]
        IN  /\ t.via = "reply"
            /\ Io("complete", "gpt-3.5-turbo", TRUE) \in Range(t.io)
            /\ HasPersisted(t)
            /\ store[t.context_id].json.o.model = "gpt-3.5-turbo"
            /\ Len(store[t.context_id].json.o.params) = 3
            /\ DefaultModel # "gpt-3.5-turbo"

\* the positions in the handler's history of the calls that send part i
PartCalls(t, i) ==
    {n \in DOMAIN t.io : t.io[n].arg \in {PartTag(i, "Markdown"),
                                          PartTag(i, "plain")}}

\* the calls that delivered a part: the successful ones
Deliveries(t, i) == {n \in PartCalls(t, i) : t.io[n].ok}

\* the messages of the chat form the reply chain of the parts delivered
C17_State ==
    \A u \in Updates :
        LET t == task[u]
            msgs == chat[t.usermsg.chat_id]
        IN  /\ \A k \in DOMAIN t.delivered :
                  LET m == t.delivered[k]
                  IN  /\ msgs[m].from = "bot"
                      /\ msgs[m].text = t.parts[k]
                      /\ IF k = 1
                         THEN /\ m = t.respmsg
                              /\ msgs[m].reply_to = t.usermsg.message_id
                         ELSE /\ msgs[m].reply_to = t.delivered[k - 1]
                              /\ m > t.delivered[k - 1]
            \* part 0 is an edit, the later parts are sends
            /\ \A n \in PartCalls(t, 0) : t.io[n].op = "editMessageText"
            /\ \A i \in 1..Len(t.parts) :
                  \A n \in PartCalls(t, i) : t.io[n].op = "sendMessage"
            \* no call for part i + 1 before part i was delivered
            /\ \A i \in 0..Len(t.parts) :
                  \A n \in PartCalls(t, i + 1) :
                      \E d \in Deliveries(t, i) : d < n

\* the edit that delivers part 0 adds no message to the chat
C17_Step ==
    \A u \in Updates :
        (Len(task[u].delivered) = 0 /\ Len(task'[u].delivered) = 1) =>
            /\ Len(chat'[task[u].usermsg.chat_id]) =
                   Len(chat[task[u].usermsg.chat_id])
            /\ chat'[task[u].usermsg.chat_id][task[u].respmsg].text =
                   task[u].parts[1]

\* C17: delivery forms a reply chain: part 0 is delivered by editing the
\* placeholder in place, without a new message; each part i >= 1 is sent as
\* a new message that replies to the message of part i - 1 (the placeholder
\* for i = 1); parts are delivered in index order, part i + 1 is never sent
\* before part i was delivered.
C17_ReplyChain == []C17_State /\ [][C17_Step]_vars

\* three parts delivered: placeholder 2, then messages replying to 2 and to
\* the message of part 1
C17_Witness ==
    \E u \in Updates :
        LET t == task[u]
            msgs == chat[t.usermsg.chat_id]
        IN  /\ t.pc = "done"
            /\ Len(t.parts) = 3
            /\ Len(t.delivered) = 3
            /\ t.delivered[1] = t.respmsg
            /\ msgs[t.delivered[2]].reply_to = t.respmsg
            /\ msgs[t.delivered[3]].reply_to = t.delivered[2]
            /\ t.delivered[2] # t.respmsg

\* the positions of the rejected calls in the handler's history
RejectedCalls(t) == {n \in DOMAIN t.io : ~t.io[n].ok}

\* both attempts to deliver part i were rejected; n is the position of the
\* rejected plain-text attempt in the handler's history
FailedAt(t, i, n) ==
    /\ n \in RejectedCalls(t)
    /\ t.io[n].arg = PartTag(i, "plain")
    /\ \E k \in RejectedCalls(t) : k < n /\ t.io[k].arg = PartTag(i, "Markdown")

\* after a delivery failure on part i nothing more of the reply is sent, and
\* the links written so far are in the store
C18_State ==
    \A u \in Updates :
        LET t == task[u]
        IN  \A n \in RejectedCalls(t) : \A i \in 0..(Len(t.parts) - 1) :
                FailedAt(t, i, n) =>
                    /\ Len(t.delivered) = i
                    /\ \A k \in DOMAIN t.io :
                          k > n => t.io[k].arg = InternalErrorText
                    /\ t.pc \in {"error_notice", "done", "unhandled"}
                    /\ \A key \in LinksWritten(t) :
                          Get(store, key) = Raw(t.context_id)
                    /\ \A k \in DOMAIN t.delivered :
                          getMessageId(t.usermsg.chat_id, t.delivered[k])
                              \in LinksWritten(t)

\* a reply to a linked message resolves to the ContextId of the link
C18_Step ==
    \A u \in Updates :
        LET t == task[u]
            replied == getMessageId(t.usermsg.chat_id, t.usermsg.reply_to)
        IN  (t.pc = "get_link" /\ task'[u].pc # "get_link"
                 /\ replied \in DOMAIN store /\ alive') =>
                /\ task'[u].pc = "get_context"
                /\ Raw(task'[u].context_id) = store[replied]

\* C18: when both the Markdown and the plain-text attempt of part i are
\* rejected, the delivery of that reply ends there: no call for a part is
\* made afterwards, exactly the parts before i are delivered, and every link
\* the handler wrote (the placeholder's and those of delivered parts) is
\* still in the store with the handler's ContextId, so a reply to any of
\* these messages resolves to that ContextId and continues the conversation.
C18_FailureAbortsRest == []C18_State /\ [][C18_Step]_vars

\* part 1 of three could not be delivered; the placeholder, which carries
\* part 0, is linked, and a reply to it has gone on to call the provider
C18_Witness ==
    \E u, v \in Updates :
        LET t == task[u]
        IN  /\ \E n \in DOMAIN t.io : FailedAt(t, 1, n)
            /\ Len(t.parts) = 3
            /\ t.delivered = <<t.respmsg>>
            /\ t.pc = "done"
            /\ task[v].via = "reply"
            /\ task[v].usermsg.reply_to = t.respmsg
            /\ task[v].context_id = t.context_id
            /\ Called(task[v])

IsPrefix(a, b) == Len(a) <= Len(b) /\ SubSeq(b, 1, Len(a)) = a

\* the ContextId the handler works under, or is about to read from the link
\* of the message it replies to
Conversation(t) ==
    LET replied == Get(store, getMessageId(t.usermsg.chat_id,
                                           t.usermsg.reply_to))
    IN  IF t.context_id # "" THEN t.context_id
        ELSE IF t.via = "reply" /\ "raw" \in DOMAIN replied THEN replied.raw
        ELSE ""

\* the handlers of u and v ran at the same time: one was running when the
\* other was called
Concurrent(u, v) == u \in task[v].among \/ v \in task[u].among

\* no update of the conversation of u is handled concurrently with u
Alone(u) ==
    \A v \in RaceUpdates \ {u} :
        Concurrent(u, v) => Conversation(task[v]) # Conversation(task[u])

\* a stored context changes only by the write of a handler; the write of a
\* handler that is alone in its conversation extends the stored turns
C19_Step ==
    /\ \A key \in ContextKeys(store) :
          /\ key \in DOMAIN store'
          /\ store'[key] # store[key] =>
                \E u \in RaceUpdates : /\ task[u].pc = "persist"
                                       /\ task'[u].pc = "link"
                                       /\ task[u].context_id = key
    /\ \A u \in RaceUpdates :
          LET key == task[u].context_id
          IN  (/\ task[u].pc = "persist"
               /\ task'[u].pc = "link"
               /\ key \in DOMAIN store
               /\ Alone(u)) =>
                  /\ IsPrefix(store[key].json.o.params,
                              store'[key].json.o.params)
                  /\ Len(store'[key].json.o.params) =
                         Len(store[key].json.o.params) + 1

\* C19: the persisted turns of a conversation are append-only: as long as
\* no two updates of the same conversation are handled concurrently, each
\* value written under a ContextId has the turns stored before as a prefix;
\* no write reorders, truncates or removes a turn, and nothing but a
\* handler's write changes a stored context.
C19_AppendOnly == [][C19_Step]_vars

\* two replies handled one after the other, each alone: the stored context
\* grew from two turns to three to four
C19_Witness ==
    \E u, v \in RaceUpdates :
        /\ u # v
        /\ task[u].via = "reply" /\ task[v].via = "reply"
        /\ \A w \in RaceUpdates : task[w].among = {}
        /\ task[u].context_id = task[v].context_id
        /\ HasPersisted(task[u]) /\ HasPersisted(task[v])
        /\ Len(task[u].messages) = 3
        /\ task[v].messages = Append(task[u].messages,
                                     UserTurn(task[v].usermsg.text))
        /\ store[task[v].context_id].json.o.params = task[v].messages

=============================================================================
